---- MODULE Spec2Model ----
(***************************************************************************)
(* scripts/DiscoverOrganizations/discoverOrganizations.py                  *)
(*                                                                         *)
(* The script is one linear pipeline: read GHES_TOKEN and GHES_HOST, build *)
(* the headers, call requests.get once, decode the body, open              *)
(* organizations.txt with mode "w", write org['login'] and "\n" for every  *)
(* element, close.  An invocation is a process; organizations.txt is the   *)
(* only state that outlives it.  Spec runs invocations one after another   *)
(* in one working directory, SpecConc runs two of them at the same time.   *)
(***************************************************************************)
EXTENDS Naturals, Integers, Sequences, FiniteSets, TLC

VARIABLES
    pc,             \* pc[p]: the line process p executes next
    GHES_TOKEN,     \* line 16
    GHES_HOST,      \* line 18
    customHeaders,  \* line 23
    sent,           \* sent[p]: the requests process p has put on the network
    response,       \* line 25
    listOrgs,       \* line 28
    it,             \* the position of the iterator of the for loop, line 34
    org,            \* the loop variable, line 34
    f,              \* the file object of line 31
    exc,            \* the exception that ended the process, if any
    exitStatus,     \* the exit status of the process, -1 while it runs
    disk,           \* organizations.txt in the working directory
    ended,          \* the number of invocations that have ended
    last            \* the exit status of the latest of them and the size of
                    \* the file it left

vars == <<pc, GHES_TOKEN, GHES_HOST, customHeaders, sent, response, listOrgs,
          it, org, f, exc, exitStatus, disk, ended, last>>

\* ------------------------------------------------------------------ bounds

\* The longest response array.
MaxOrgs == 2

\* The number of invocations of the script in one behaviour.
MaxRuns == 2

\* The process slots; Spec uses the first only.
Procs == {1, 2}

\* ----------------------------------------------------------- Python values
\* A value is a tuple whose first element is its type.

None == <<"None">>
PyInt == <<"int">>
Str(cs) == <<"str", cs>>
List(es) == <<"list", es>>
\* A dict: its keys in insertion order and the value under 'login'.
Dict(keys, login) == <<"dict", keys, login>>
\* What an expression gives when it raises.
Raises(type) == <<"raise", type>>
Unset == <<"unset">>

IsStr(v) == v[1] = "str"
IsRaise(v) == v[1] = "raise"

InSeq(x, s) == \E i \in 1..Len(s) : s[i] = x

\* a + b for the operands the script uses: str + str concatenates, str + None
\* raises TypeError.
Add(a, b) ==
    IF IsStr(a) /\ IsStr(b) THEN Str(a[2] \o b[2]) ELSE Raises("TypeError")

\* ------------------------------------------------------------- environment

\* os.environ.get gives None for a variable that is not set.
TokenValues == {None, Str(<<>>), Str(<<"abc123">>)}
HostValues == {None, Str(<<>>), Str(<<"example.com">>)}

\* ------------------------------------------------------------ the response
\* A body is a JSON document, or text that is not JSON.

NotJson == <<"text">>
JNull == <<"null">>
JNumber == <<"number">>
JString(cs) == <<"string", cs>>
JArray(es) == <<"array", es>>
\* A JSON object: its member names in order and the value of "login".
JObject(names, login) == <<"object", names, login>>

\* The logins of the responses.
Logins == {<<"a">>, <<"b">>, <<"a", "\n", "b">>}

\* The members of the response arrays: organizations, an organization whose
\* login is null, one without login, and a number.
Elements ==
    {JObject(<<"login", "id">>, JString(l)) : l \in Logins}
        \cup {JObject(<<"login">>, JNull), JObject(<<"id">>, JNull), JNumber}

SeqsUpTo(S, n) == UNION {[1..k -> S] : k \in 0..n}

Arrays == {JArray(es) : es \in SeqsUpTo(Elements, MaxOrgs)}

Bodies ==
    Arrays \cup {NotJson, JNull, JNumber, JString(<<>>), JString(<<"a">>),
                 JObject(<<>>, JNull), JObject(<<"message">>, JNull)}

\* requests.get either raises (no connection, DNS, TLS) or returns a response.
NetworkError == <<"error">>
Response(body) == <<"response", body>>
Outcomes == {NetworkError} \cup {Response(b) : b \in Bodies}

\* json.loads, by type: array -> list, object -> dict, string -> str,
\* number -> int, null -> None; anything else raises.
RECURSIVE Decode(_)
Decode(b) ==
    CASE b[1] = "null" -> None
      [] b[1] = "number" -> PyInt
      [] b[1] = "string" -> Str(b[2])
      [] b[1] = "array" -> List([i \in 1..Len(b[2]) |-> Decode(b[2][i])])
      [] b[1] = "object" -> Dict(b[2], Decode(b[3]))
      [] OTHER -> Raises("JSONDecodeError")

\* The list iterated from its end.
IterReversed(v) ==
    CASE v[1] = "list" ->
            <<"items", [i \in 1..Len(v[2]) |-> v[2][Len(v[2]) + 1 - i]]>>
      [] v[1] = "dict" -> <<"items", [i \in 1..Len(v[2]) |-> Str(<<v[2][i]>>)]>>
      [] v[1] = "str" -> <<"items", [i \in 1..Len(v[2]) |-> Str(<<v[2][i]>>)]>>
      [] OTHER -> Raises("TypeError")

\* A value that is not iterable taken for an empty list.
IterLenient(v) ==
    CASE v[1] = "list" -> <<"items", v[2]>>
      [] v[1] = "dict" -> <<"items", [i \in 1..Len(v[2]) |-> Str(<<v[2][i]>>)]>>
      [] v[1] = "str" -> <<"items", [i \in 1..Len(v[2]) |-> Str(<<v[2][i]>>)]>>
      [] OTHER -> <<"items", <<>>>>

\* iter(v), as <<"items", the items it yields>>: the elements of a list, the
\* keys of a dict, the characters of a str; other values are not iterable.
Iter(v) ==
    CASE v[1] = "list" -> <<"items", v[2]>>
      [] v[1] = "dict" -> <<"items", [i \in 1..Len(v[2]) |-> Str(<<v[2][i]>>)]>>
      [] v[1] = "str" -> <<"items", [i \in 1..Len(v[2]) |-> Str(<<v[2][i]>>)]>>
      [] OTHER -> Raises("TypeError")

\* v.get('login', ''): no KeyError for a dict without login.
GetLoginDefault(v) ==
    IF v[1] = "dict"
    THEN IF InSeq("login", v[2]) THEN v[3] ELSE Str(<<>>)
    ELSE Raises("TypeError")

\* v['login']: a dict gives the value or raises KeyError; a str, a list, an int
\* and None raise TypeError.
GetLogin(v) ==
    IF v[1] = "dict"
    THEN IF InSeq("login", v[2]) THEN v[3] ELSE Raises("KeyError")
    ELSE Raises("TypeError")

\* ------------------------------------------------------------ the file

NoFile == [exists |-> FALSE, data |-> <<>>]
NoHandle == [state |-> "none", buf |-> <<>>, pos |-> 0, dev |-> "ok"]
NoExc == [type |-> "none", line |-> 0]

\* What open() can meet: a writable directory, a file it may not write
\* (PermissionError), a full device (every later write to it fails).
Devices == {"ok", "denied", "full"}

Pad(n) == [i \in 1..n |-> "NUL"]

\* Every write at the end of the file, as with O_APPEND.
WriteAtAppend(data, pos, bytes) == data \o bytes

\* write(2) of bytes at offset pos of a file holding data.
WriteAt(data, pos, bytes) ==
    LET head == IF pos <= Len(data) THEN SubSeq(data, 1, pos)
                ELSE data \o Pad(pos - Len(data))
        tail == SubSeq(data, pos + Len(bytes) + 1, Len(data))
    IN  head \o bytes \o tail

\* ------------------------------------------------------------ the script

\* The invocations started so far.
Launched ==
    ended + Cardinality({q \in Procs : pc[q] \notin {"idle", "exited"}})

\* An uncaught exception of the given type at the given line ends the script.
Raise(p, type, line) ==
    /\ pc' = [pc EXCEPT ![p] = "raised"]
    /\ exc' = [exc EXCEPT ![p] = [type |-> type, line |-> line]]

Goto(p, label) ==
    /\ pc' = [pc EXCEPT ![p] = label]
    /\ exc' = exc

\* The open moved to the top of the script: the file is truncated at the start.
LaunchTruncating(p, tokens, hosts) ==
    /\ pc[p] \in {"idle", "exited"}
    /\ Launched < MaxRuns
    /\ \E t \in tokens, h \in hosts :
        /\ GHES_TOKEN' = [GHES_TOKEN EXCEPT ![p] = t]
        /\ GHES_HOST' = [GHES_HOST EXCEPT ![p] = h]
    /\ customHeaders' = [customHeaders EXCEPT ![p] = Unset]
    /\ sent' = [sent EXCEPT ![p] = <<>>]
    /\ response' = [response EXCEPT ![p] = Unset]
    /\ listOrgs' = [listOrgs EXCEPT ![p] = Unset]
    /\ it' = [it EXCEPT ![p] = 0]
    /\ org' = [org EXCEPT ![p] = Unset]
    /\ f' = [f EXCEPT ![p] = NoHandle]
    /\ exitStatus' = [exitStatus EXCEPT ![p] = -1]
    /\ pc' = [pc EXCEPT ![p] = "L23"]
    /\ exc' = [exc EXCEPT ![p] = NoExc]
    /\ disk' = [exists |-> TRUE, data |-> <<>>]
    /\ UNCHANGED <<ended, last>>

\* A new process: lines 9-20.  The environment gives the two variables.
Launch(p, tokens, hosts) ==
    /\ pc[p] \in {"idle", "exited"}
    /\ Launched < MaxRuns
    /\ \E t \in tokens, h \in hosts :
        /\ GHES_TOKEN' = [GHES_TOKEN EXCEPT ![p] = t]
        /\ GHES_HOST' = [GHES_HOST EXCEPT ![p] = h]
    /\ customHeaders' = [customHeaders EXCEPT ![p] = Unset]
    /\ sent' = [sent EXCEPT ![p] = <<>>]
    /\ response' = [response EXCEPT ![p] = Unset]
    /\ listOrgs' = [listOrgs EXCEPT ![p] = Unset]
    /\ it' = [it EXCEPT ![p] = 0]
    /\ org' = [org EXCEPT ![p] = Unset]
    /\ f' = [f EXCEPT ![p] = NoHandle]
    /\ exitStatus' = [exitStatus EXCEPT ![p] = -1]
    /\ pc' = [pc EXCEPT ![p] = "L23"]
    /\ exc' = [exc EXCEPT ![p] = NoExc]
    /\ UNCHANGED <<disk, ended, last>>

\* 'token ' + str(token): no exception for None.
AuthorizationStr(token) ==
    IF token = <<"None">> THEN <<"str", <<"token ", "None">>>>
    ELSE <<"str", <<"token ">> \o token[2]>>

\* The value of 'Authorization', line 23.
Authorization(token) == Add(Str(<<"token ">>), token)

\* The dict of line 23, as its items in order.
Headers(auth) ==
    <<"headers", <<<<"Authorization", auth>>,
                   <<"Accept", Str(<<"application/vnd.github.v3+json">>)>>>>>>

\* Line 23.
BuildHeaders(p) ==
    /\ pc[p] = "L23"
    /\ LET auth == Authorization(GHES_TOKEN[p])
       IN  IF IsRaise(auth)
           THEN Raise(p, auth[2], 23) /\ UNCHANGED customHeaders
           ELSE /\ customHeaders' = [customHeaders EXCEPT ![p] = Headers(auth)]
                /\ Goto(p, "L25")
    /\ UNCHANGED <<GHES_TOKEN, GHES_HOST, sent, response, listOrgs, it, org,
                   f, exitStatus, disk, ended, last>>

\* http:// for https://.
UrlHttp(host) ==
    IF host[1] = "str"
    THEN <<"str", <<"http://">> \o host[2] \o <<"/api/v3/organizations">>>>
    ELSE <<"raise", "TypeError">>

\* The first argument of requests.get, line 25.
Url(host) == Add(Add(Str(<<"https://">>), host), Str(<<"/api/v3/organizations">>))

\* Line 25.  requests refuses a URL without a host (InvalidURL) before it
\* sends anything; a request that is sent meets a network error or a response.
Get(p, outcomes) ==
    /\ pc[p] = "L25"
    /\ LET url == Url(GHES_HOST[p])
       IN  IF IsRaise(url)
           THEN Raise(p, "TypeError", 25) /\ UNCHANGED <<sent, response>>
           ELSE IF GHES_HOST[p] = Str(<<>>)
           THEN Raise(p, "InvalidURL", 25) /\ UNCHANGED <<sent, response>>
           ELSE /\ sent' = [sent EXCEPT ![p] = Append(@,
                        <<"GET", url, customHeaders[p]>>)]
                /\ \E o \in outcomes :
                     IF o = NetworkError
                     THEN Raise(p, "ConnectionError", 25) /\ UNCHANGED response
                     ELSE /\ response' = [response EXCEPT ![p] = o]
                          /\ Goto(p, "L28")
    /\ UNCHANGED <<GHES_TOKEN, GHES_HOST, customHeaders, listOrgs, it, org, f,
                   exitStatus, disk, ended, last>>

\* Line 28.
Json(p) ==
    /\ pc[p] = "L28"
    /\ LET v == Decode(response[p][2])
       IN  IF IsRaise(v)
           THEN Raise(p, v[2], 28) /\ UNCHANGED listOrgs
           ELSE /\ listOrgs' = [listOrgs EXCEPT ![p] = v]
                /\ Goto(p, "L31")
    /\ UNCHANGED <<GHES_TOKEN, GHES_HOST, customHeaders, sent, response, it,
                   org, f, exitStatus, disk, ended, last>>

\* The file opened without truncation, as with mode "r+".
OpenKeep(d) == [exists |-> TRUE, data |-> d.data]

\* The file after open(OUTPUT_FILE, "w"): created if missing, truncated if not.
OpenW(d) == [exists |-> TRUE, data |-> <<>>]

\* Line 31.
Open(p, devs) ==
    /\ pc[p] = "L31"
    /\ \E d \in devs :
         IF d = "denied"
         THEN Raise(p, "PermissionError", 31) /\ UNCHANGED <<f, disk>>
         ELSE /\ disk' = OpenW(disk)
              /\ f' = [f EXCEPT ![p] =
                        [state |-> "open", buf |-> <<>>, pos |-> 0, dev |-> d]]
              /\ Goto(p, "L34")
    /\ UNCHANGED <<GHES_TOKEN, GHES_HOST, customHeaders, sent, response,
                   listOrgs, it, org, exitStatus, ended, last>>

\* Line 34: the next element of the iterator, or the end of the loop.
ForNext(p) ==
    /\ pc[p] = "L34"
    /\ LET items == Iter(listOrgs[p])
       IN  IF IsRaise(items)
           THEN Raise(p, items[2], 34) /\ UNCHANGED <<it, org>>
           ELSE IF it[p] < Len(items[2])
           THEN /\ org' = [org EXCEPT ![p] = items[2][it[p] + 1]]
                /\ it' = [it EXCEPT ![p] = @ + 1]
                /\ Goto(p, "L35")
           ELSE Goto(p, "L39") /\ UNCHANGED <<it, org>>
    /\ UNCHANGED <<GHES_TOKEN, GHES_HOST, customHeaders, sent, response,
                   listOrgs, f, exitStatus, disk, ended, last>>

\* f.write(s): s joins the buffer of the file object.  A full buffer goes to
\* the file, and when that happens depends on the amount written so far: a
\* write may leave the file alone, may flush what was pending before it, or
\* may flush everything.  A flush to a full device raises OSError.
FileWrite(p, s, line, next) ==
    LET b == f[p].buf \o s
    IN  \E flush \in {"none", "pending", "all"} :
          LET out == IF flush = "all" THEN b
                     ELSE IF flush = "pending" THEN f[p].buf ELSE <<>>
              rest == IF flush = "all" THEN <<>>
                      ELSE IF flush = "pending" THEN s ELSE b
          IN  IF out = <<>>
              THEN /\ f' = [f EXCEPT ![p].buf = b]
                   /\ Goto(p, next)
                   /\ UNCHANGED disk
              ELSE IF f[p].dev = "full"
              THEN /\ f' = [f EXCEPT ![p].buf = b]
                   /\ Raise(p, "OSError", line)
                   /\ UNCHANGED disk
              ELSE /\ disk' = [disk EXCEPT !.data = WriteAt(@, f[p].pos, out)]
                   /\ f' = [f EXCEPT ![p].buf = rest, ![p].pos = @ + Len(out)]
                   /\ Goto(p, next)

\* Line 35.
WriteLogin(p) ==
    /\ pc[p] = "L35"
    /\ LET v == GetLogin(org[p])
       IN  IF IsRaise(v)
           THEN Raise(p, v[2], 35) /\ UNCHANGED <<f, disk>>
           ELSE IF ~IsStr(v)
           THEN Raise(p, "TypeError", 35) /\ UNCHANGED <<f, disk>>
           ELSE FileWrite(p, v[2], 35, "L36")
    /\ UNCHANGED <<GHES_TOKEN, GHES_HOST, customHeaders, sent, response,
                   listOrgs, it, org, exitStatus, ended, last>>

\* Line 36.
WriteNewline(p) ==
    /\ pc[p] = "L36"
    /\ FileWrite(p, <<"\n">>, 36, "L34")
    /\ UNCHANGED <<GHES_TOKEN, GHES_HOST, customHeaders, sent, response,
                   listOrgs, it, org, exitStatus, ended, last>>

\* The script without its last line: the file object is never closed.
CloseForgotten(p) ==
    /\ pc[p] = "L39"
    /\ Goto(p, "end")
    /\ UNCHANGED <<GHES_TOKEN, GHES_HOST, customHeaders, sent, response,
                   listOrgs, it, org, f, exitStatus, disk, ended, last>>

\* Line 39: close() flushes the buffer and releases the descriptor, also when
\* the flush fails.
Close(p) ==
    /\ pc[p] = "L39"
    /\ f' = [f EXCEPT ![p].state = "closed", ![p].buf = <<>>,
                      ![p].pos = @ + Len(f[p].buf)]
    /\ IF f[p].dev = "full" /\ f[p].buf # <<>>
       THEN Raise(p, "OSError", 39) /\ UNCHANGED disk
       ELSE /\ disk' = [disk EXCEPT !.data = WriteAt(@, f[p].pos, f[p].buf)]
            /\ Goto(p, "end")
    /\ UNCHANGED <<GHES_TOKEN, GHES_HOST, customHeaders, sent, response,
                   listOrgs, it, org, exitStatus, ended, last>>

\* The exception swallowed at the top level: status 0 whatever happened.
ExitZero(p) ==
    /\ pc[p] \in {"end", "raised"}
    /\ pc' = [pc EXCEPT ![p] = "exited"]
    /\ exitStatus' = [exitStatus EXCEPT ![p] = 0]
    /\ IF f[p].state = "open"
       THEN /\ f' = [f EXCEPT ![p].state = "released", ![p].buf = <<>>]
            /\ disk' = IF f[p].dev = "full" THEN disk
                       ELSE [disk EXCEPT !.data = WriteAt(@, f[p].pos, f[p].buf)]
       ELSE UNCHANGED <<f, disk>>
    /\ ended' = ended + 1
    /\ last' = [status |-> 0, size |-> Len(disk'.data)]
    /\ UNCHANGED <<GHES_TOKEN, GHES_HOST, customHeaders, sent, response,
                   listOrgs, it, org, exc>>

\* The end of the process: status 0 after the last line, status 1 and a
\* traceback after an uncaught exception.  The interpreter finalizes a file
\* object still open, which flushes its buffer (silently failing on a full
\* device), and the descriptor goes with the process.
Exit(p) ==
    /\ pc[p] \in {"end", "raised"}
    /\ pc' = [pc EXCEPT ![p] = "exited"]
    /\ exitStatus' = [exitStatus EXCEPT ![p] = IF pc[p] = "end" THEN 0 ELSE 1]
    /\ IF f[p].state = "open"
       THEN /\ f' = [f EXCEPT ![p].state = "released", ![p].buf = <<>>]
            /\ disk' = IF f[p].dev = "full" THEN disk
                       ELSE [disk EXCEPT !.data = WriteAt(@, f[p].pos, f[p].buf)]
       ELSE UNCHANGED <<f, disk>>
    /\ ended' = ended + 1
    /\ last' = [status |-> IF pc[p] = "end" THEN 0 ELSE 1,
                size |-> Len(disk'.data)]
    /\ UNCHANGED <<GHES_TOKEN, GHES_HOST, customHeaders, sent, response,
                   listOrgs, it, org, exc>>

\* One step of process p, its inputs drawn from the given sets.
Step(p, tokens, hosts, outcomes, devs) ==
    \/ Launch(p, tokens, hosts)
    \/ BuildHeaders(p)
    \/ Get(p, outcomes)
    \/ Json(p)
    \/ Open(p, devs)
    \/ ForNext(p)
    \/ WriteLogin(p)
    \/ WriteNewline(p)
    \/ Close(p)
    \/ Exit(p)

Init ==
    /\ pc = [p \in Procs |-> "idle"]
    /\ GHES_TOKEN = [p \in Procs |-> Unset]
    /\ GHES_HOST = [p \in Procs |-> Unset]
    /\ customHeaders = [p \in Procs |-> Unset]
    /\ sent = [p \in Procs |-> <<>>]
    /\ response = [p \in Procs |-> Unset]
    /\ listOrgs = [p \in Procs |-> Unset]
    /\ it = [p \in Procs |-> 0]
    /\ org = [p \in Procs |-> Unset]
    /\ f = [p \in Procs |-> NoHandle]
    /\ exc = [p \in Procs |-> NoExc]
    /\ exitStatus = [p \in Procs |-> -1]
    /\ disk = NoFile
    /\ ended = 0
    /\ last = [status |-> -1, size |-> 0]

\* Invocations one after another: the script is run as a single process.
Next == Step(1, TokenValues, HostValues, Outcomes, Devices)

Spec == Init /\ [][Next]_vars

\* Two invocations in the same working directory at the same time, each with
\* a valid configuration, a list of organizations and a writable directory.
ConcOutcomes ==
    {Response(JArray(es)) :
        es \in {<<>>,
                <<JObject(<<"login", "id">>, JString(<<"b">>))>>,
                <<JObject(<<"login", "id">>, JString(<<"a">>)),
                  JObject(<<"login", "id">>, JString(<<"b">>))>>}}

NextConc ==
    \E p \in Procs :
        Step(p, {Str(<<"abc123">>)}, {Str(<<"example.com">>)}, ConcOutcomes, {"ok"})

SpecConc == Init /\ [][NextConc]_vars

\* ------------------------------------------------------------ properties

HasLogin(e) == e[1] = "dict" /\ InSeq("login", e[2])
IsOrg(e) == HasLogin(e) /\ IsStr(e[3])

\* login + "\n" of every element, in order.
RECURSIVE Lines(_)
Lines(es) ==
    IF es = <<>> THEN <<>> ELSE es[1][3][2] \o <<"\n">> \o Lines(Tail(es))

Count(c, s) == Cardinality({i \in 1..Len(s) : s[i] = c})

\* The script ran to its last line.
Completed(p) == pc[p] = "end" \/ (pc[p] = "exited" /\ exitStatus[p] = 0)
\* The script ended with an uncaught exception.
Failed(p) == pc[p] \in {"raised", "exited"} /\ exc[p] # NoExc

\* The file as it is once the buffer of p's file object has been flushed.
Flushed(p) == WriteAt(disk.data, f[p].pos, f[p].buf)

\* C1: when a run has completed on a response that is an array of N objects
\* that each have a login, organizations.txt exists and holds exactly
\* login + "\n" of element 1, ..., element N in array order (nothing for N = 0),
\* which is N lines unless a login itself holds a newline.
C1_FileIsLoginsInOrder ==
    \A p \in Procs :
        (/\ Completed(p)
         /\ listOrgs[p][1] = "list"
         /\ \A i \in 1..Len(listOrgs[p][2]) : HasLogin(listOrgs[p][2][i]))
        => LET es == listOrgs[p][2]
           IN  /\ \A i \in 1..Len(es) : IsStr(es[i][3])
               /\ disk.exists
               /\ disk.data = Lines(es)
               /\ (\A i \in 1..Len(es) : ~InSeq("\n", es[i][3][2]))
                    => Count("\n", disk.data) = Len(es)

\* A completed run whose response lists b before a.
C1_Witness ==
    /\ pc[1] = "end"
    /\ Len(listOrgs[1][2]) = 2
    /\ listOrgs[1][2][1][3] = Str(<<"b">>)
    /\ listOrgs[1][2][2][3] = Str(<<"a">>)
    /\ disk.data = <<"b", "\n", "a", "\n">>

\* C2: in a run that follows a successful run, the file holds nothing but
\* what this run has written (from the open on, its length is the offset of
\* the run's file object), and once the run has completed it holds exactly
\* this run's logins.
C2_SecondRunOnly ==
    (ended > 0 /\ last.status = 0)
    => /\ f[1].state = "open" => disk.exists /\ Len(disk.data) = f[1].pos
       /\ (pc[1] = "end" /\ listOrgs[1][1] = "list")
            => disk.data = Lines(listOrgs[1][2])

\* The first run succeeded and left 4 bytes; the second has completed on a
\* response of one organization and the file holds its 2 bytes only.
C2_Witness ==
    /\ ended = 1
    /\ last = [status |-> 0, size |-> 4]
    /\ pc[1] = "end"
    /\ listOrgs[1][1] = "list"
    /\ Len(listOrgs[1][2]) = 1
    /\ disk = [exists |-> TRUE, data |-> <<"b", "\n">>]

\* The first element of es that is an object without login, 0 if there is
\* none.
FirstMissing(es) ==
    IF \E k \in 1..Len(es) : es[k][1] = "dict" /\ ~HasLogin(es[k])
    THEN CHOOSE k \in 1..Len(es) :
            /\ es[k][1] = "dict" /\ ~HasLogin(es[k])
            /\ \A j \in 1..(k - 1) : ~(es[j][1] = "dict" /\ ~HasLogin(es[j]))
    ELSE 0

\* C3: when element k is the first without a login key (the elements before
\* it being organizations), the run never gets past element k and never
\* completes; on a writable directory it ends with KeyError at line 35 on
\* element k, its exit status is not 0, and the file holds exactly the lines
\* of the elements before k once the process has ended.
C3_MissingLoginAborts ==
    \A p \in Procs :
        LET es == listOrgs[p][2]
            k == FirstMissing(es)
        IN  (/\ listOrgs[p][1] = "list"
             /\ k > 0
             /\ \A j \in 1..(k - 1) : IsOrg(es[j]))
            => /\ it[p] <= k
               /\ ~Completed(p)
               /\ exitStatus[p] # 0
               /\ (Failed(p) /\ f[p].state # "none" /\ f[p].dev = "ok")
                    => /\ exc[p] = [type |-> "KeyError", line |-> 35]
                       /\ it[p] = k
                       /\ Flushed(p) = Lines(SubSeq(es, 1, k - 1))
                       /\ pc[p] = "exited"
                            => disk.data = Lines(SubSeq(es, 1, k - 1))

\* A run has ended on [a, {no login}]: the file holds a's line only.
C3_Witness ==
    /\ pc[1] = "exited"
    /\ exitStatus[1] = 1
    /\ exc[1] = [type |-> "KeyError", line |-> 35]
    /\ it[1] = 2
    /\ Len(listOrgs[1][2]) = 2
    /\ disk.data = <<"a", "\n">>

\* C4: a run sends at most one request, whatever its outcome; a request it
\* sends is a GET of https:// + GHES_HOST + /api/v3/organizations with the
\* headers Authorization: token  + GHES_TOKEN and
\* Accept: application/vnd.github.v3+json and no other; a run that is past
\* line 25, or that met a network error, has sent exactly one.
C4_OneGet ==
    \A p \in Procs :
        /\ Len(sent[p]) <= 1
        /\ \A i \in 1..Len(sent[p]) :
            sent[p][i] =
                <<"GET",
                  Str(<<"https://">> \o GHES_HOST[p][2]
                        \o <<"/api/v3/organizations">>),
                  <<"headers",
                    <<<<"Authorization", Str(<<"token ">> \o GHES_TOKEN[p][2])>>,
                      <<"Accept", Str(<<"application/vnd.github.v3+json">>)>>>>>>>>
        /\ (response[p] # Unset \/ exc[p].type = "ConnectionError")
             => Len(sent[p]) = 1

\* The request of GHES_HOST = example.com, GHES_TOKEN = abc123 met a network
\* error: the process has ended and the request was sent once.
C4_Witness ==
    /\ pc[1] = "exited"
    /\ exc[1] = [type |-> "ConnectionError", line |-> 25]
    /\ sent[1] =
        << <<"GET",
             Str(<<"https://", "example.com", "/api/v3/organizations">>),
             <<"headers",
               <<<<"Authorization", Str(<<"token ", "abc123">>)>>,
                 <<"Accept", Str(<<"application/vnd.github.v3+json">>)>>>>>>>> >>

Missing(v) == v = None \/ v = Str(<<>>)

\* C5, as claimed: with GHES_TOKEN or GHES_HOST absent or empty the run never
\* gets past line 25, and it ends with an error at line 23 or 25.
C5_Original ==
    \A p \in Procs :
        (Missing(GHES_TOKEN[p]) \/ Missing(GHES_HOST[p]))
        => /\ pc[p] \in {"L23", "L25", "raised", "exited"}
           /\ pc[p] \in {"raised", "exited"} => exc[p].line \in {23, 25}

\* C5, amended: an absent GHES_TOKEN ends the run with TypeError at line 23;
\* otherwise an absent GHES_HOST ends it with TypeError, and an empty one with
\* InvalidURL, at line 25; in these cases nothing is sent and the run never
\* gets past line 25.  An empty GHES_TOKEN is no failure at line 23: the header
\* is "token " and the run goes on to line 25.
C5_AbsentFailsFast ==
    \A p \in Procs :
        /\ (GHES_TOKEN[p] = None \/ Missing(GHES_HOST[p]))
            => /\ pc[p] \in {"L23", "L25", "raised", "exited"}
               /\ sent[p] = <<>>
               /\ exitStatus[p] # 0
               /\ pc[p] \in {"raised", "exited"}
                    => exc[p] =
                        IF GHES_TOKEN[p] = None
                        THEN [type |-> "TypeError", line |-> 23]
                        ELSE IF GHES_HOST[p] = None
                        THEN [type |-> "TypeError", line |-> 25]
                        ELSE [type |-> "InvalidURL", line |-> 25]
        /\ (GHES_TOKEN[p] = Str(<<>>) /\ pc[p] \notin {"idle", "L23"})
            => /\ exc[p].line # 23
               /\ customHeaders[p] = Headers(Str(<<"token ">>))

\* A run with a token and an empty host has ended with InvalidURL.
C5_Witness ==
    /\ pc[1] = "exited"
    /\ GHES_TOKEN[1] = Str(<<"abc123">>)
    /\ GHES_HOST[1] = Str(<<>>)
    /\ exc[1] = [type |-> "InvalidURL", line |-> 25]
    /\ exitStatus[1] = 1

\* The body of p's response is something else than a JSON array of objects.
NotOrgArray(p) ==
    /\ response[p] # Unset
    /\ LET b == response[p][2]
       IN  \/ b[1] # "array"
           \/ \E i \in 1..Len(b[2]) : b[2][i][1] # "object"

\* The loop has nothing to iterate over: the empty object and the empty
\* string.
EmptyNonArray(p) ==
    /\ response[p] # Unset
    /\ response[p][2] \in {JObject(<<>>, JNull), JString(<<>>)}

\* An error of the file system, not of the response.
IOFailure(p) == exc[p].type \in {"PermissionError", "OSError"}

\* C6, as claimed: on a body that is not a JSON array of objects the run never
\* reaches the end of the loop, and unless the file system fails it ends with
\* an error at the decode (line 28) or in the loop (lines 34-35).
C6_Original ==
    \A p \in Procs :
        NotOrgArray(p)
        => /\ pc[p] \notin {"L39", "end"}
           /\ exitStatus[p] # 0
           /\ (pc[p] \in {"raised", "exited"} /\ ~IOFailure(p))
                => exc[p].line \in {28, 34, 35}

\* C6, amended: the same, except for the empty object and the empty string,
\* on which the loop body never runs: there the run closes an empty file and
\* only a failing open keeps it from exit status 0.
C6_BadShapeFails ==
    \A p \in Procs :
        /\ (NotOrgArray(p) /\ ~EmptyNonArray(p))
            => /\ pc[p] \notin {"L39", "end"}
               /\ exitStatus[p] # 0
               /\ (pc[p] \in {"raised", "exited"} /\ ~IOFailure(p))
                    => exc[p].line \in {28, 34, 35}
        /\ EmptyNonArray(p)
            => /\ pc[p] \in {"raised", "exited"}
                    => \/ exc[p] = NoExc /\ exitStatus[p] = 0
                       \/ exc[p].type = "PermissionError"
               /\ Completed(p) => disk = [exists |-> TRUE, data |-> <<>>]

\* A run on an error object {"message": ...} has ended with TypeError at the
\* field access.
C6_Witness ==
    /\ pc[1] = "exited"
    /\ response[1] = Response(JObject(<<"message">>, JNull))
    /\ exc[1] = [type |-> "TypeError", line |-> 35]
    /\ exitStatus[1] = 1

\* Every step of the script has completed.
AllSteps(p) ==
    /\ customHeaders[p] # Unset
    /\ Len(sent[p]) = 1
    /\ response[p] # Unset
    /\ listOrgs[p] # Unset
    /\ Iter(listOrgs[p])[1] = "items"
    /\ it[p] = Len(Iter(listOrgs[p])[2])
    /\ f[p].state = "closed"
    /\ f[p].buf = <<>>
    /\ exc[p] = NoExc

\* C7: a process that has ended has status 0 if every step completed and
\* status 1 if not; a step that raised is the last one the script executed:
\* the script is at no later line and nothing a later step sets is set.
C7_ExitStatus ==
    \A p \in Procs :
        /\ pc[p] = "exited"
            => /\ exitStatus[p] \in {0, 1}
               /\ exitStatus[p] = 0 <=> AllSteps(p)
        /\ pc[p] # "exited" => exitStatus[p] = -1
        /\ exc[p] # NoExc
            => /\ pc[p] \in {"raised", "exited"}
               /\ exc[p].line <= 23 => customHeaders[p] = Unset
               /\ exc[p].line <= 25 => response[p] = Unset
               /\ exc[p].line <= 28 => listOrgs[p] = Unset
               /\ exc[p].line <= 31 => f[p].state = "none" /\ it[p] = 0
               /\ exc[p].line <= 36 => f[p].state # "closed"

\* A run has ended with status 1 on a response that is not JSON.
C7_Witness ==
    /\ pc[1] = "exited"
    /\ exitStatus[1] = 1
    /\ exc[1] = [type |-> "JSONDecodeError", line |-> 28]
    /\ f[1].state = "none"

\* C8: the file object is closed exactly when line 39 has been executed, which
\* is after the loop has gone through every item; a run that fails in the
\* loop (a missing login, a write that fails) ends with the file object open,
\* and the descriptor is only released with the process.
C8_CloseOnlyAtEnd ==
    \A p \in Procs :
        /\ f[p].state = "closed"
            <=> \/ Completed(p)
                \/ pc[p] \in {"raised", "exited"} /\ exc[p].line = 39
        /\ f[p].state = "closed"
            => /\ Iter(listOrgs[p])[1] = "items"
               /\ it[p] = Len(Iter(listOrgs[p])[2])
        /\ exc[p].line \in {34, 35, 36}
            => /\ pc[p] = "raised" => f[p].state = "open"
               /\ pc[p] = "exited" => f[p].state = "released"

\* A write to a full device has failed at line 36: the file object is open.
C8_Witness ==
    /\ pc[1] = "raised"
    /\ exc[1] = [type |-> "OSError", line |-> 36]
    /\ f[1].state = "open"

\* The lines p's run writes.
Output(p) == Lines(listOrgs[p][2])

\* C9: when two concurrent runs have both completed, the file is no longer
\* than the longer output and every byte of it is the byte one of the runs
\* wrote at that offset, or a hole left by a truncation: a mix of the two.
C9_RaceMixes ==
    (\A p \in Procs : Completed(p))
    => /\ disk.exists
       /\ \E p \in Procs : Len(disk.data) <= Len(Output(p))
       /\ \A i \in 1..Len(disk.data) :
            \/ disk.data[i] = "NUL"
            \/ \E p \in Procs :
                i <= Len(Output(p)) /\ disk.data[i] = Output(p)[i]

\* Both runs have completed, one on [a, b] and one on [b], and the file is
\* the complete output of neither: the first line of the longer output is
\* overwritten by the shorter.
C9_Witness ==
    /\ \A p \in Procs : Completed(p)
    /\ Output(1) = <<"a", "\n", "b", "\n">>
    /\ Output(2) = <<"b", "\n">>
    /\ disk.data = <<"b", "\n", "b", "\n">>
    /\ \A p \in Procs : disk.data # Output(p)

\* The lines of the script before the open.
BeforeOpen(p) ==
    \/ pc[p] \in {"idle", "exited", "L23", "L25", "L28"}
    \/ pc[p] = "raised" /\ exc[p].line \in {23, 25, 28}

\* C10: a run that fails at line 23, 25 or 28 has no file object, and no step
\* of a run that is before line 31, or that failed before it, changes the
\* file: neither created nor truncated.
C10_FailureBeforeOpenKeepsFile ==
    /\ [](\A p \in Procs : exc[p].line \in {23, 25, 28} => f[p].state = "none")
    /\ [][BeforeOpen(1) => disk' = disk]_vars

\* The run after a successful one, which left 4 bytes, has failed at the
\* decode and is about to end: the file still holds the 4 bytes.
C10_Witness ==
    /\ ended = 1
    /\ last = [status |-> 0, size |-> 4]
    /\ pc[1] = "raised"
    /\ exc[1] = [type |-> "JSONDecodeError", line |-> 28]
    /\ disk.exists
    /\ Len(disk.data) = 4

====
